---- MODULE Spec2Model ----
(***************************************************************************)
(* Model of lib/supabaseService.ts: the data-access layer that wraps       *)
(* backend queries and remote procedures into {data, error} envelopes.     *)
(*                                                                         *)
(* One invocation of an exported operation runs at a time.  Every await    *)
(* of the source is a suspension point: one action issues the backend      *)
(* call(s), the next one receives the backend's outcome (chosen            *)
(* nondeterministically, the backend being opaque) and runs the code up    *)
(* to the next await or to the return.                                     *)
(***************************************************************************)
EXTENDS Integers, Sequences, FiniteSets, TLC

VARIABLES
    friendships,   \* backend table friendships: set of <<user_id, friend_id>>
    op,            \* exported operation in progress, "idle" when none
    args,          \* its arguments
    pc,            \* position of the invocation within the operation
    calls,         \* backend calls issued by this invocation, in issue order
    outcomes,      \* how the settled ones among them settled, in the same order
    successRead,   \* the code has evaluated data.success of a procedure payload
    hrIn,          \* the settled query handed to handleResponse
    local,         \* locals of the operation that live across an await
    rows,          \* fetchNotifications: the fetched notification rows
    rowpc,         \* fetchNotifications: position of each row's enrichment callback
    rowvars,       \* fetchNotifications: user/session/tag locals of each row's callback
    rowcalls,      \* fetchNotifications: lookups issued by each row's callback, in issue order
    rowouts,       \* fetchNotifications: how each row's settled lookups settled
    result         \* completion delivered to the caller

vars == <<friendships, op, args, pc, calls, outcomes, successRead, hrIn, local,
          rows, rowpc, rowvars, rowcalls, rowouts, result>>

(***************************************************************************)
(* Bounds                                                                  *)
(***************************************************************************)
MaxRows == 2

(***************************************************************************)
(* JavaScript values                                                       *)
(***************************************************************************)
Null == [k |-> "null"]
Undefined == [k |-> "undefined"]
True == [k |-> "true"]
False == [k |-> "false"]
Str(s) == [k |-> "string", s |-> s]
Num(n) == [k |-> "number", n |-> n]
List(items) == [k |-> "list", items |-> items]

\* error object reported (or thrown) by the backend client
BackendError(m) == [k |-> "backendError", message |-> m]
\* new Error(m) built by this layer
AppError(m) == [k |-> "Error", message |-> m]
\* TypeError raised by the runtime on a property read of null
TypeError == [k |-> "TypeError", message |-> "cannot read properties of null"]

\* JavaScript truthiness, as used by `if (error)`, `data && ...`, `x || y`
Truthy(v) == /\ v.k \notin {"null", "undefined", "false"}
             /\ v # Str("")
             /\ v # Num(0)

\* completion of an awaited promise or of an async function
Return(d, e) == [k |-> "return", data |-> d, error |-> e]
Throw(v) == [k |-> "throw", value |-> v]
NoResult == [k |-> "none"]

Users == {"u1", "u2"}
ErrorValues == {BackendError("E1"), BackendError("E2")}
ThrownValues == {BackendError("E1"), TypeError}

\* generic rows returned by a table query
Row(t, id) == [k |-> "row", table |-> t, id |-> id]

EmptyObject == [k |-> "object", keys |-> {}]

\* rows of sessions: the array / object columns and the joined creator are
\* nullable, and a column may be missing from the row altogether
SessionRows(id) ==
    [k : {"row"}, table : {"sessions"}, id : {id},
     visible_to_tags : {Null, Undefined, List(<<Str("t1")>>)},
     participant_roles : {Null, [k |-> "object", keys |-> {"u1"}]},
     participants : {Null, List(<<Str("u1")>>)},
     creator : {Null, [k |-> "creator", username |-> "alice"]}]

\* rows of tags: member_ids is a nullable array column
TagRows(id) ==
    [k : {"row"}, table : {"tags"}, id : {id},
     member_ids : {Null, Undefined, List(<<Str("u1")>>)}]

\* rows of conversations; participant_ids is a nullable array column
ConversationRows(id) ==
    {[k |-> "row", table |-> "conversations", id |-> id, participant_ids |-> ps] :
        ps \in {Null, List(<<Str("u1"), Str("u2")>>)}}

TableRows(t, id) ==
    CASE t = "sessions" -> SessionRows(id)
      [] t = "tags" -> TagRows(id)
      [] t = "conversations" -> ConversationRows(Str(id))
      [] OTHER -> {Row(t, id)}

\* the lists a query on table t may return: none, one, or two rows
RowLists(t) ==
    {List(<<>>)}
        \cup {List(<<r>>) : r \in TableRows(t, "r1")}
        \cup {List(<<r, CHOOSE r2 \in TableRows(t, "r2") : TRUE>>) : r \in TableRows(t, "r1")}

\* what a settled backend query may be: a rejection, or {data, error}
QueryOutcomes(dataSet) ==
    {Throw(v) : v \in ThrownValues}
        \cup {Return(d, e) : d \in dataSet \cup {Null}, e \in ErrorValues \cup {Null}}

\* a backend call reported a failure
IsFailure(q) == q.k = "throw" \/ Truthy(q.error)

(***************************************************************************)
(* handleResponse                                                          *)
(***************************************************************************)
\* handleResponse without its try/catch: a rejection of the query propagates
handleResponseNoCatch(q) ==
    IF q.k = "throw" THEN q
    ELSE IF Truthy(q.error) THEN Return(Null, q.error)
    ELSE Return(q.data, Null)

handleResponse(q) ==
    IF q.k = "throw" THEN Return(Null, q.value)
    ELSE IF Truthy(q.error) THEN Return(Null, q.error)
    ELSE Return(q.data, Null)

(***************************************************************************)
(* Direct query pass-through operations                                    *)
(***************************************************************************)
\* x || d
OrElse(x, d) == IF Truthy(x) THEN x ELSE d

\* {...s, visibleToTags: s.visible_to_tags || [], participantRoles:
\* s.participant_roles || {}, creator: s.creator || {username: 'Unknown'}};
\* the spread copies the row's participants column as it is
mapSessionFromDB(s) ==
    [k |-> "session", id |-> s.id,
     participants |-> s.participants,
     visibleToTags |-> OrElse(s.visible_to_tags, List(<<>>)),
     participantRoles |-> OrElse(s.participant_roles, EmptyObject),
     creator |-> OrElse(s.creator, [k |-> "creator", username |-> "Unknown"])]

\* the tag mapper of fetchTags / createTag / updateTag
mapTag(t) == [k |-> "tag", id |-> t.id, memberIds |-> OrElse(t.member_ids, List(<<>>))]

mapConversationFromDB(c) == [k |-> "conversation", id |-> c.id, participantIds |-> c.participant_ids]

\* the conversation mapper of fetchConversationsForUser
mapConversationListItem(c) ==
    [k |-> "conversation", id |-> c.id, participantIds |-> c.participant_ids,
     messages |-> List(<<>>), unreadCount |-> 0]

SessionOps == {"fetchActiveSessions", "createSession", "updateSession", "fetchUserSessionHistory"}
TagOps == {"fetchTags", "createTag", "updateTag"}

\* the view-model a row is mapped to by the .then callback of operation o
MapRow(o, r) ==
    CASE o \in SessionOps -> mapSessionFromDB(r)
      [] o \in TagOps -> mapTag(r)
      [] o = "fetchConversationsForUser" -> mapConversationListItem(r)
      [] OTHER -> [k |-> "view", table |-> r.table, id |-> r.id]

MapRows(o, l) == List([i \in 1..Len(l.items) |-> MapRow(o, l.items[i])])

\* .then(({data, error}) => ({data: data ? data.map(f) : null, error}))
ThenMap(o, q) ==
    IF q.k = "throw" THEN q
    ELSE Return(IF Truthy(q.data) THEN MapRows(o, q.data) ELSE Null, q.error)

\* operation |-> table or procedure, verb, whether a .then mapper is chained, and
\* whether the query asks for rows back (a select, a procedure, or a write with .select())
PassThrough ==
    [fetchActiveSessions |-> [target |-> "sessions", verb |-> "select", mapped |-> TRUE,
         returning |-> TRUE],
     createSession |-> [target |-> "sessions", verb |-> "insert", mapped |-> TRUE,
         returning |-> TRUE],
     updateSession |-> [target |-> "sessions", verb |-> "update", mapped |-> TRUE,
         returning |-> TRUE],
     deleteSession |-> [target |-> "sessions", verb |-> "delete", mapped |-> FALSE,
         returning |-> FALSE],
     fetchUserVouchHistory |-> [target |-> "get_user_vouch_history", verb |-> "rpc", mapped |-> TRUE,
         returning |-> TRUE],
     fetchFriendRequests |-> [target |-> "friend_requests", verb |-> "select", mapped |-> TRUE,
         returning |-> TRUE],
     sendFriendRequest |-> [target |-> "friend_requests", verb |-> "insert", mapped |-> FALSE,
         returning |-> TRUE],
     rejectFriendRequest |-> [target |-> "friend_requests", verb |-> "delete", mapped |-> FALSE,
         returning |-> FALSE],
     fetchTags |-> [target |-> "tags", verb |-> "select", mapped |-> TRUE,
         returning |-> TRUE],
     createTag |-> [target |-> "tags", verb |-> "insert", mapped |-> TRUE,
         returning |-> TRUE],
     updateTag |-> [target |-> "tags", verb |-> "update", mapped |-> TRUE,
         returning |-> TRUE],
     deleteTag |-> [target |-> "tags", verb |-> "delete", mapped |-> FALSE,
         returning |-> FALSE],
     fetchProfilesByIds |-> [target |-> "profiles", verb |-> "select", mapped |-> TRUE,
         returning |-> TRUE],
     searchUsers |-> [target |-> "profiles", verb |-> "select", mapped |-> TRUE,
         returning |-> TRUE],
     updateUserProfile |-> [target |-> "profiles", verb |-> "update", mapped |-> FALSE,
         returning |-> TRUE],
     fetchUserSessionHistory |-> [target |-> "sessions", verb |-> "select", mapped |-> TRUE,
         returning |-> TRUE],
     fetchSessionMessages |-> [target |-> "session_messages", verb |-> "select", mapped |-> FALSE,
         returning |-> TRUE],
     sendSessionMessage |-> [target |-> "session_messages", verb |-> "insert", mapped |-> FALSE,
         returning |-> FALSE],
     markNotificationAsRead |-> [target |-> "notifications", verb |-> "update", mapped |-> FALSE,
         returning |-> FALSE],
     markAllNotificationsAsRead |-> [target |-> "notifications", verb |-> "update", mapped |-> FALSE,
         returning |-> FALSE],
     deleteNotification |-> [target |-> "notifications", verb |-> "delete", mapped |-> FALSE,
         returning |-> FALSE],
     fetchConversationsForUser |-> [target |-> "conversations", verb |-> "select", mapped |-> TRUE,
         returning |-> TRUE],
     fetchMessagesForConversation |-> [target |-> "direct_messages", verb |-> "select", mapped |-> TRUE,
         returning |-> TRUE],
     sendDirectMessage |-> [target |-> "direct_messages", verb |-> "insert", mapped |-> FALSE,
         returning |-> FALSE]]

PassThroughOps == DOMAIN PassThrough

Call(target, verb, key) == [target |-> target, verb |-> verb, key |-> key]

NoLocal == [k |-> "none"]

Init ==
    /\ friendships \in SUBSET {pr \in Users \X Users : pr[1] # pr[2]}
    /\ op = "idle"
    /\ args = <<>>
    /\ pc = "idle"
    /\ calls = <<>>
    /\ outcomes = <<>>
    /\ successRead = FALSE
    /\ hrIn = NoResult
    /\ local = NoLocal
    /\ rows = <<>>
    /\ rowpc = <<>>
    /\ rowvars = <<>>
    /\ rowcalls = <<>>
    /\ rowouts = <<>>
    /\ result = NoResult

\* the caller invokes operation o: the code runs to its first await
Start(o, a, firstCalls, firstPc) ==
    /\ op = "idle"
    /\ op' = o
    /\ args' = a
    /\ pc' = firstPc
    /\ calls' = firstCalls
    /\ UNCHANGED <<friendships, outcomes, successRead, hrIn, local, rows, rowpc, rowvars, rowcalls, rowouts, result>>

\* the invocation returns completion r to the caller
Deliver(r) ==
    /\ pc' = "done"
    /\ result' = r

InvokePassThrough ==
    \E o \in PassThroughOps, u \in Users :
        Start(o, <<u>>, <<Call(PassThrough[o].target, PassThrough[o].verb, <<Str(u)>>)>>, "await")

\* a write query without .select() resolves with data = null
PassThroughData(o) ==
    IF PassThrough[o].returning THEN RowLists(PassThrough[o].target) ELSE {}

SettlePassThrough ==
    /\ op \in PassThroughOps
    /\ pc = "await"
    /\ \E q \in QueryOutcomes(PassThroughData(op)) :
        LET settled == IF PassThrough[op].mapped THEN ThenMap(op, q) ELSE q IN
        /\ hrIn' = settled
        /\ outcomes' = Append(outcomes, q)
        /\ Deliver(handleResponse(settled))
    /\ UNCHANGED <<friendships, op, args, calls, successRead, local, rows, rowpc, rowvars, rowcalls, rowouts>>

(***************************************************************************)
(* Remote-procedure wrappers                                               *)
(***************************************************************************)
\* the jsonb envelope a procedure resolves with: {success, error?, ...payload}
Payloads ==
    [k : {"payload"}, success : {True, False, Undefined},
     error : {Undefined, Str("X"), Str("")},
     participants : {Str("ps")}, participant_roles : {Str("roles")}]

RpcOutcomes == QueryOutcomes(Payloads)

\* operation |-> procedure and the fixed message of its application-level error
RpcWrapper ==
    [joinSession |-> [proc |-> "join_session_safe", default |-> "Failed to join session"],
     leaveSession |-> [proc |-> "leave_session_safe", default |-> "Failed to leave session"],
     createVouch |-> [proc |-> "create_vouch_safe", default |-> "Failed to create vouch"],
     createNotification |-> [proc |-> "create_notification_safe",
                             default |-> "Failed to create notification"]]

RpcWrapperOps == DOMAIN RpcWrapper

\* data.error || '<default message>'
MessageOf(p, default) == IF Truthy(p.error) THEN p.error.s ELSE default

\* the value returned on the success path of operation o
RpcSuccessReturn(o, d) ==
    IF o = "joinSession"
    THEN IF d = Null
         THEN Return(Null, TypeError)   \* data.participants of null throws; caught
         ELSE Return(List(<<[k |-> "joined", participants |-> d.participants,
                             participant_roles |-> d.participant_roles]>>), Null)
    ELSE Return(d, Null)

\* the wrapper body without its `data && !data.success` check
RpcWrapperReturnNoSuccessCheck(o, q) ==
    IF q.k = "throw" THEN Return(Null, q.value)
    ELSE IF Truthy(q.error) THEN Return(Null, q.error)
    ELSE RpcSuccessReturn(o, q.data)

\* the wrapper body with the success check placed before the transport-error check
RpcWrapperReturnSuccessFirst(o, q) ==
    IF q.k = "throw" THEN Return(Null, q.value)
    ELSE IF Truthy(q.data) /\ ~Truthy(q.data.success)
         THEN Return(Null, AppError(MessageOf(q.data, RpcWrapper[o].default)))
    ELSE IF Truthy(q.error) THEN Return(Null, q.error)
    ELSE RpcSuccessReturn(o, q.data)

\* body of joinSession / leaveSession / createVouch / createNotification after the await
RpcWrapperReturn(o, q) ==
    IF q.k = "throw" THEN Return(Null, q.value)
    ELSE IF Truthy(q.error) THEN Return(Null, q.error)
    ELSE IF Truthy(q.data) /\ ~Truthy(q.data.success)
         THEN Return(Null, AppError(MessageOf(q.data, RpcWrapper[o].default)))
    ELSE RpcSuccessReturn(o, q.data)

\* whether that body evaluates data.success: `data && !data.success` is reached
\* past the transport-error return, and && short-circuits on a falsy data
RpcWrapperReadsSuccess(o, q) ==
    /\ q.k = "return"
    /\ ~Truthy(q.error)
    /\ Truthy(q.data)

InvokeRpcWrapper ==
    \E o \in RpcWrapperOps, u \in Users :
        Start(o, <<u>>, <<Call(RpcWrapper[o].proc, "rpc", <<Str(u)>>)>>, "await")

\* the wrapper's settling with one retry of a failed procedure call
SettleRpcWrapperRetrying ==
    /\ op \in RpcWrapperOps
    /\ pc = "await"
    /\ \E q \in RpcOutcomes :
        /\ outcomes' = Append(outcomes, q)
        /\ IF IsFailure(q) /\ Len(calls) = 1 THEN
                /\ calls' = Append(calls, calls[1])
                /\ UNCHANGED <<pc, result, successRead>>
           ELSE
                /\ successRead' = RpcWrapperReadsSuccess(op, q)
                /\ Deliver(RpcWrapperReturn(op, q))
                /\ UNCHANGED calls
    /\ UNCHANGED <<friendships, op, args, hrIn, local, rows, rowpc, rowvars, rowcalls, rowouts>>

SettleRpcWrapper ==
    /\ op \in RpcWrapperOps
    /\ pc = "await"
    /\ \E q \in RpcOutcomes :
        /\ outcomes' = Append(outcomes, q)
        /\ successRead' = RpcWrapperReadsSuccess(op, q)
        /\ Deliver(RpcWrapperReturn(op, q))
    /\ UNCHANGED <<friendships, op, args, calls, hrIn, local, rows, rowpc, rowvars, rowcalls, rowouts>>

\* body of acceptFriendRequest after the await
acceptFriendRequestReturn(q) ==
    IF q.k = "throw" THEN Return(Null, q.value)
    ELSE IF Truthy(q.error) THEN Return(Null, q.error)
    ELSE Return(True, Null)

InvokeAcceptFriendRequest ==
    \E u \in Users :
        Start("acceptFriendRequest", <<u>>, <<Call("accept_friend_request", "rpc", <<Str(u)>>)>>, "await")

SettleAcceptFriendRequest ==
    /\ op = "acceptFriendRequest"
    /\ pc = "await"
    /\ \E q \in RpcOutcomes :
        /\ outcomes' = Append(outcomes, q)
        /\ Deliver(acceptFriendRequestReturn(q))
    /\ UNCHANGED <<friendships, op, args, calls, successRead, hrIn, local, rows, rowpc, rowvars, rowcalls, rowouts>>

(***************************************************************************)
(* Multi-step composite operations                                         *)
(***************************************************************************)
\* the invocation issues one more backend call and suspends at position p
Issue(c, p) ==
    /\ calls' = Append(calls, c)
    /\ pc' = p
    /\ UNCHANGED result

\* a delete without .select() resolves with data = null
DeleteOutcomes == QueryOutcomes({})

InvokeRemoveFriend ==
    \E u \in Users, f \in Users :
        Start("removeFriend", <<u, f>>,
              <<Call("friendships", "delete", <<Str(u), Str(f)>>)>>, "delete1")

\* the first delete's settling without `if (error1) throw error1`
RemoveFriendDelete1IgnoringError ==
    /\ op = "removeFriend"
    /\ pc = "delete1"
    /\ \E q \in DeleteOutcomes :
        /\ outcomes' = Append(outcomes, q)
        /\ IF q.k = "throw" THEN
                /\ Deliver(Return(Null, q.value))
                /\ UNCHANGED <<calls, friendships>>
           ELSE
                /\ friendships' = IF Truthy(q.error) THEN friendships
                                  ELSE friendships \ {<<args[1], args[2]>>}
                /\ Issue(Call("friendships", "delete", <<Str(args[2]), Str(args[1])>>),
                         "delete2")
    /\ UNCHANGED <<op, args, successRead, hrIn, local, rows, rowpc, rowvars, rowcalls, rowouts>>

\* first delete settled: throw error1, or issue the second delete
RemoveFriendDelete1 ==
    /\ op = "removeFriend"
    /\ pc = "delete1"
    /\ \E q \in DeleteOutcomes :
        /\ outcomes' = Append(outcomes, q)
        /\ IF q.k = "throw" THEN
                /\ Deliver(Return(Null, q.value))
                /\ UNCHANGED <<calls, friendships>>
           ELSE IF Truthy(q.error) THEN
                /\ Deliver(Return(Null, q.error))
                /\ UNCHANGED <<calls, friendships>>
           ELSE
                /\ friendships' = friendships \ {<<args[1], args[2]>>}
                /\ Issue(Call("friendships", "delete", <<Str(args[2]), Str(args[1])>>),
                         "delete2")
    /\ UNCHANGED <<op, args, successRead, hrIn, local, rows, rowpc, rowvars, rowcalls, rowouts>>

\* the second delete's settling with a compensating re-insert of the first
\* direction when the second delete fails
RemoveFriendDelete2Compensating ==
    /\ op = "removeFriend"
    /\ pc = "delete2"
    /\ \E q \in DeleteOutcomes :
        /\ outcomes' = Append(outcomes, q)
        /\ IF IsFailure(q) THEN
                /\ friendships' = friendships \cup {<<args[1], args[2]>>}
                /\ calls' = Append(calls, Call("friendships", "insert",
                                               <<Str(args[1]), Str(args[2])>>))
                /\ Deliver(Return(Null, IF q.k = "throw" THEN q.value ELSE q.error))
           ELSE
                /\ friendships' = friendships \ {<<args[2], args[1]>>}
                /\ Deliver(Return(True, Null))
                /\ UNCHANGED calls
    /\ UNCHANGED <<op, args, successRead, hrIn, local, rows, rowpc, rowvars, rowcalls, rowouts>>

\* second delete settled
RemoveFriendDelete2 ==
    /\ op = "removeFriend"
    /\ pc = "delete2"
    /\ \E q \in DeleteOutcomes :
        /\ outcomes' = Append(outcomes, q)
        /\ IF q.k = "throw" THEN
                /\ Deliver(Return(Null, q.value))
                /\ UNCHANGED friendships
           ELSE IF Truthy(q.error) THEN
                /\ Deliver(Return(Null, q.error))
                /\ UNCHANGED friendships
           ELSE
                /\ friendships' = friendships \ {<<args[2], args[1]>>}
                /\ Deliver(Return(True, Null))
    /\ UNCHANGED <<op, args, calls, successRead, hrIn, local, rows, rowpc, rowvars, rowcalls, rowouts>>

RECURSIVE SetToSeq(_)
SetToSeq(S) ==
    IF S = {} THEN <<>>
    ELSE LET x == CHOOSE y \in S : TRUE IN <<x>> \o SetToSeq(S \ {x})

\* rows of friendships with user_id = u, as select('friend_id') returns them
FriendshipRows(u) ==
    List(SetToSeq({[k |-> "row", friend_id |-> Str(pr[2])] : pr \in {x \in friendships : x[1] = u}}))

\* rows of profiles with id in ids
ProfileRows(ids) ==
    List([i \in 1..Len(ids) |-> [k |-> "row", table |-> "profiles", id |-> ids[i]]])

\* friends.map(p => ({id: p.id, ..., mutualFriends: 0}))
MapFriends(l) ==
    List([i \in 1..Len(l.items) |-> [k |-> "friend", id |-> l.items[i].id, mutualFriends |-> 0]])

InvokeFetchFriends ==
    \E u \in Users :
        Start("fetchFriends", <<u>>, <<Call("friendships", "select", <<Str(u)>>)>>, "friendships")

\* the friendships lookup's settling without the early return on zero rows
FetchFriendsLookupNoEarlyReturn ==
    /\ op = "fetchFriends"
    /\ pc = "friendships"
    /\ \E q \in QueryOutcomes({FriendshipRows(args[1])}) :
        /\ outcomes' = Append(outcomes, q)
        /\ IF q.k = "throw" THEN
                /\ Deliver(Return(Null, q.value))
                /\ UNCHANGED <<calls, local>>
           ELSE IF Truthy(q.error) THEN
                /\ Deliver(Return(Null, q.error))
                /\ UNCHANGED <<calls, local>>
           ELSE
                LET items == IF Truthy(q.data) THEN q.data.items ELSE <<>>
                    friendIds == [i \in 1..Len(items) |-> items[i].friend_id] IN
                /\ local' = List(friendIds)
                /\ Issue(Call("profiles", "select", friendIds), "profiles")
    /\ UNCHANGED <<friendships, op, args, successRead, hrIn, rows, rowpc, rowvars, rowcalls, rowouts>>

\* friendships lookup settled
FetchFriendsLookup ==
    /\ op = "fetchFriends"
    /\ pc = "friendships"
    /\ \E q \in QueryOutcomes({FriendshipRows(args[1])}) :
        /\ outcomes' = Append(outcomes, q)
        /\ IF q.k = "throw" THEN
                /\ Deliver(Return(Null, q.value))
                /\ UNCHANGED <<calls, local>>
           ELSE IF Truthy(q.error) THEN
                /\ Deliver(Return(Null, q.error))
                /\ UNCHANGED <<calls, local>>
           ELSE IF ~Truthy(q.data) \/ Len(q.data.items) = 0 THEN
                /\ Deliver(Return(List(<<>>), Null))
                /\ UNCHANGED <<calls, local>>
           ELSE
                LET friendIds == [i \in 1..Len(q.data.items) |-> q.data.items[i].friend_id] IN
                /\ local' = List(friendIds)
                /\ Issue(Call("profiles", "select", friendIds), "profiles")
    /\ UNCHANGED <<friendships, op, args, successRead, hrIn, rows, rowpc, rowvars, rowcalls, rowouts>>

\* profiles batch-fetch settled
FetchFriendsProfiles ==
    /\ op = "fetchFriends"
    /\ pc = "profiles"
    /\ \E q \in QueryOutcomes({ProfileRows(local.items), List(<<>>)}) :
        /\ outcomes' = Append(outcomes, q)
        /\ IF q.k = "throw" THEN Deliver(Return(Null, q.value))
           ELSE IF Truthy(q.error) THEN Deliver(Return(Null, q.error))
           ELSE Deliver(Return(IF Truthy(q.data) THEN MapFriends(q.data) ELSE List(<<>>), Null))
    /\ UNCHANGED <<friendships, op, args, calls, successRead, hrIn, local, rows, rowpc, rowvars, rowcalls, rowouts>>

ConversationIds == {Str("c1")}

InvokeGetOrCreateConversation ==
    \E u1 \in Users, u2 \in Users :
        Start("getOrCreateConversation", <<u1, u2>>,
              <<Call("get_or_create_conversation", "rpc", <<Str(u1), Str(u2)>>)>>, "rpc")

\* the procedure's settling without the return on a transport error
GetOrCreateConversationRpcIgnoringError ==
    /\ op = "getOrCreateConversation"
    /\ pc = "rpc"
    /\ \E q \in QueryOutcomes(ConversationIds) :
        /\ outcomes' = Append(outcomes, q)
        /\ IF q.k = "throw" THEN
                /\ Deliver(Return(Null, q.value))
                /\ UNCHANGED <<calls, local>>
           ELSE
                /\ local' = q.data
                /\ Issue(Call("conversations", "select", <<q.data>>), "fetch")
    /\ UNCHANGED <<friendships, op, args, successRead, hrIn, rows, rowpc, rowvars, rowcalls, rowouts>>

\* get_or_create_conversation settled
GetOrCreateConversationRpc ==
    /\ op = "getOrCreateConversation"
    /\ pc = "rpc"
    /\ \E q \in QueryOutcomes(ConversationIds) :
        /\ outcomes' = Append(outcomes, q)
        /\ IF q.k = "throw" THEN
                /\ Deliver(Return(Null, q.value))
                /\ UNCHANGED <<calls, local>>
           ELSE IF Truthy(q.error) THEN
                /\ Deliver(Return(Null, q.error))
                /\ UNCHANGED <<calls, local>>
           ELSE
                /\ local' = q.data
                /\ Issue(Call("conversations", "select", <<q.data>>), "fetch")
    /\ UNCHANGED <<friendships, op, args, successRead, hrIn, rows, rowpc, rowvars, rowcalls, rowouts>>

\* fetch of the conversations row settled
GetOrCreateConversationFetch ==
    /\ op = "getOrCreateConversation"
    /\ pc = "fetch"
    /\ \E q \in QueryOutcomes(ConversationRows(local)) :
        /\ outcomes' = Append(outcomes, q)
        /\ IF q.k = "throw" THEN Deliver(Return(Null, q.value))
           ELSE IF Truthy(q.error) THEN Deliver(Return(Null, q.error))
           ELSE IF q.data = Null THEN Deliver(Return(Null, TypeError))  \* c.id of null throws; caught
           ELSE Deliver(Return(mapConversationFromDB(q.data), Null))
    /\ UNCHANGED <<friendships, op, args, calls, successRead, hrIn, local, rows, rowpc, rowvars, rowcalls, rowouts>>

(***************************************************************************)
(* fetchNotifications                                                      *)
(***************************************************************************)
\* related ids of a notification row: a key of the related table, or null
ActorIds == {Null, Str("a1")}
SessionIds == {Null, Num(1)}
TagIds == {Null, Str("t1")}

NotificationRow(i, a, s, t) ==
    [k |-> "row", id |-> Num(i), actor_id |-> a, session_id |-> s, tag_id |-> t]

\* the lists of at most MaxRows rows the notifications query may return
NotificationRowLists ==
    UNION {{List([i \in 1..n |-> NotificationRow(i, f[i][1], f[i][2], f[i][3])]) :
                f \in [1..n -> ActorIds \X SessionIds \X TagIds]} : n \in 0..MaxRows}

\* the three lookups of the enrichment callback, in source order
Stages == <<"actor", "session", "tag">>
StageTable == [actor |-> "profiles", session |-> "sessions", tag |-> "tags"]
StageKey(n, st) ==
    CASE st = "actor" -> n.actor_id
      [] st = "session" -> n.session_id
      [] st = "tag" -> n.tag_id

\* the callback without its `if (n.<id>)` guards: every lookup is issued
AdvanceUnguarded(n, j) ==
    IF j >= Len(Stages) THEN "done" ELSE Stages[j + 1]

\* the callback's position once the first j stages are behind it: the next
\* stage whose `if (n.<id>)` guard passes, or "done" when none is left
RECURSIVE Advance(_, _)
Advance(n, j) ==
    IF j >= Len(Stages) THEN "done"
    ELSE IF Truthy(StageKey(n, Stages[j + 1])) THEN Stages[j + 1]
    ELSE Advance(n, j + 1)

StageIndex(st) == CHOOSE j \in 1..Len(Stages) : Stages[j] = st

Pending(p) == p \in {"actor", "session", "tag"}

\* .from(table).select(...).eq('id', key).single()
LookupCall(n, st) == Call(StageTable[st], "select", <<StageKey(n, st)>>)
\* .single() resolves with the row, or with an error and no data
LookupOutcomes(n, st) ==
    {Throw(BackendError("E1")),
     Return(Row(StageTable[st], StageKey(n, st)), Null),
     Return(Null, BackendError("E2"))}

\* the lookup the callback of row n issues on being started by data.map, if any
FirstLookup(n) ==
    IF Pending(Advance(n, 0)) THEN <<LookupCall(n, Advance(n, 0))>> ELSE <<>>

\* x ? {id: x.id, ...} : undefined
Summary(x) == IF Truthy(x) THEN [k |-> "summary", table |-> x.table, id |-> x.id] ELSE Undefined

\* the object a row's callback returns
Enriched(n, v) ==
    [k |-> "notification", id |-> n.id,
     user |-> Summary(v.user), session |-> Summary(v.session), tag |-> Summary(v.tag)]

NoLookups == [user |-> Null, session |-> Null, tag |-> Null]

StageVar == [actor |-> "user", session |-> "session", tag |-> "tag"]

InvokeFetchNotifications ==
    \E u \in Users :
        Start("fetchNotifications", <<u>>, <<Call("notifications", "select", <<Str(u)>>)>>, "await")

\* notifications query settled: the .then callback returns early or starts
\* one enrichment callback per row, each running to its first await
FetchNotificationsQuery ==
    /\ op = "fetchNotifications"
    /\ pc = "await"
    /\ \E q \in QueryOutcomes(NotificationRowLists) :
        /\ outcomes' = Append(outcomes, q)
        /\ IF q.k = "throw" THEN
                /\ hrIn' = q
                /\ Deliver(handleResponse(q))
                /\ UNCHANGED <<rows, rowpc, rowvars, rowcalls, rowouts>>
           ELSE IF Truthy(q.error) \/ ~Truthy(q.data) THEN
                /\ hrIn' = Return(Null, q.error)
                /\ Deliver(handleResponse(Return(Null, q.error)))
                /\ UNCHANGED <<rows, rowpc, rowvars, rowcalls, rowouts>>
           ELSE
                /\ rows' = q.data.items
                /\ rowpc' = [i \in 1..Len(q.data.items) |-> Advance(q.data.items[i], 0)]
                /\ rowvars' = [i \in 1..Len(q.data.items) |-> NoLookups]
                /\ rowcalls' = [i \in 1..Len(q.data.items) |-> FirstLookup(q.data.items[i])]
                /\ rowouts' = [i \in 1..Len(q.data.items) |-> <<>>]
                /\ pc' = "enrich"
                /\ UNCHANGED <<hrIn, result>>
    /\ UNCHANGED <<friendships, op, args, calls, successRead, local>>

\* a lookup of row i settled: its callback stores the data and runs to its
\* next await or to its return; a rejection rejects Promise.all at once
FetchNotificationsLookup ==
    /\ op = "fetchNotifications"
    /\ pc \in {"enrich", "done"}
    /\ \E i \in 1..Len(rows) :
        /\ Pending(rowpc[i])
        /\ \E q \in LookupOutcomes(rows[i], rowpc[i]) :
            /\ rowouts' = [rowouts EXCEPT ![i] = Append(@, q)]
            /\ IF q.k = "throw" THEN
                    /\ rowpc' = [rowpc EXCEPT ![i] = "thrown"]
                    /\ UNCHANGED <<rowvars, rowcalls>>
                    /\ IF pc = "enrich"
                       THEN /\ hrIn' = q
                            /\ Deliver(handleResponse(q))
                       ELSE UNCHANGED <<hrIn, pc, result>>
               ELSE
                    LET next == Advance(rows[i], StageIndex(rowpc[i])) IN
                    /\ rowvars' = [rowvars EXCEPT ![i][StageVar[rowpc[i]]] = q.data]
                    /\ rowpc' = [rowpc EXCEPT ![i] = next]
                    /\ rowcalls' = IF Pending(next)
                                   THEN [rowcalls EXCEPT ![i] = Append(@, LookupCall(rows[i], next))]
                                   ELSE rowcalls
                    /\ UNCHANGED <<hrIn, pc, result>>
    /\ UNCHANGED <<friendships, op, args, calls, outcomes, successRead, local, rows>>

\* a join that resolves as soon as no lookup of the first row is outstanding
FetchNotificationsJoinEarly ==
    /\ op = "fetchNotifications"
    /\ pc = "enrich"
    /\ IF Len(rows) = 0 THEN TRUE ELSE rowpc[1] = "done"
    /\ LET settled == Return(List([i \in 1..Len(rows) |-> Enriched(rows[i], rowvars[i])]), Null) IN
        /\ hrIn' = settled
        /\ Deliver(handleResponse(settled))
    /\ UNCHANGED <<friendships, op, args, calls, outcomes, successRead, local, rows, rowpc, rowvars, rowcalls, rowouts>>

\* every callback has returned: Promise.all resolves with the entries in row order
FetchNotificationsJoin ==
    /\ op = "fetchNotifications"
    /\ pc = "enrich"
    /\ \A i \in 1..Len(rows) : rowpc[i] = "done"
    /\ LET settled == Return(List([i \in 1..Len(rows) |-> Enriched(rows[i], rowvars[i])]), Null) IN
        /\ hrIn' = settled
        /\ Deliver(handleResponse(settled))
    /\ UNCHANGED <<friendships, op, args, calls, outcomes, successRead, local, rows, rowpc, rowvars, rowcalls, rowouts>>

\* the caller has consumed the result; the next invocation may start
Finish ==
    /\ pc = "done"
    /\ op' = "idle"
    /\ args' = <<>>
    /\ pc' = "idle"
    /\ calls' = <<>>
    /\ outcomes' = <<>>
    /\ successRead' = FALSE
    /\ hrIn' = NoResult
    /\ local' = NoLocal
    /\ rows' = <<>>
    /\ rowpc' = <<>>
    /\ rowvars' = <<>>
    /\ rowcalls' = <<>>
    /\ rowouts' = <<>>
    /\ result' = NoResult
    /\ UNCHANGED friendships

Next ==
    \/ InvokeAcceptFriendRequest
    \/ SettleAcceptFriendRequest
    \/ InvokeRpcWrapper
    \/ SettleRpcWrapper
    \/ InvokePassThrough
    \/ SettlePassThrough
    \/ InvokeRemoveFriend
    \/ RemoveFriendDelete1
    \/ RemoveFriendDelete2
    \/ InvokeFetchFriends
    \/ FetchFriendsLookup
    \/ FetchFriendsProfiles
    \/ InvokeGetOrCreateConversation
    \/ GetOrCreateConversationRpc
    \/ GetOrCreateConversationFetch
    \/ Finish

Spec == Init /\ [][Next]_vars

\* fetchNotifications on its own: its fan-out is explored for every list of
\* rows, independently of the content of the friendships table
InitNotifications ==
    /\ Init
    /\ friendships = {}

NextNotifications ==
    \/ InvokeFetchNotifications
    \/ FetchNotificationsQuery
    \/ FetchNotificationsLookup
    \/ FetchNotificationsJoin
    \/ Finish

SpecNotifications == InitNotifications /\ [][NextNotifications]_vars

\* every exported operation, starting from one friendship row
InitAll ==
    /\ Init
    /\ friendships = {<<"u1", "u2">>}

NextAll ==
    \/ Next
    \/ NextNotifications

SpecAll == InitAll /\ [][NextAll]_vars

(***************************************************************************)
(* Properties                                                              *)
(***************************************************************************)
\* the value a failed backend call failed with
FailureValue(q) == IF q.k = "throw" THEN q.value ELSE q.error

\* the call resolved and reported a transport error
TransportError(q) == q.k = "return" /\ q.error # Null

\* the call resolved without a transport error and the procedure's payload says success = false
PayloadReportsFailure(q) ==
    /\ q.k = "return"
    /\ q.error = Null
    /\ q.data.k = "payload"
    /\ q.data.success = False

\* every backend call of the invocation succeeded: no rejection, no reported
\* error, no payload with success = false
SucceededEndToEnd ==
    \A j \in 1..Len(outcomes) : ~IsFailure(outcomes[j]) /\ ~PayloadReportsFailure(outcomes[j])

ZeroRows(d) == d = Null \/ (d.k = "list" /\ Len(d.items) = 0)

AllRpcOps == RpcWrapperOps \cup {"acceptFriendRequest", "getOrCreateConversation"}

\* C1: every envelope an operation returns has exactly one of data / error
\* non-null, and error is null exactly when every backend call of the
\* invocation succeeded end-to-end.
EnvelopeExactlyOne ==
    pc = "done" =>
        /\ result.k = "return"
        /\ (result.data = Null) # (result.error = Null)
        /\ (result.error = Null) <=> SucceededEndToEnd

\* C2: handleResponse never throws: a rejected query gives {data: null, error:
\* the caught value}, a resolved query with an error gives {data: null, error},
\* any other resolved query gives {data, error: null}.
HandleResponseNormalizes ==
    (op \in PassThroughOps /\ pc = "done") =>
        /\ result.k = "return"
        /\ hrIn.k = "throw" => result = Return(Null, hrIn.value)
        /\ (hrIn.k = "return" /\ hrIn.error # Null) => result = Return(Null, hrIn.error)
        /\ (hrIn.k = "return" /\ hrIn.error = Null) => result = Return(hrIn.data, Null)

HandleResponseCaught ==
    /\ op \in PassThroughOps
    /\ pc = "done"
    /\ hrIn.k = "throw"
    /\ result = Return(Null, hrIn.value)

\* C3: joinSession, leaveSession, createVouch and createNotification turn a
\* payload {success: false, error: "X"} received without transport error into
\* data = null and an Error with message "X", and a payload {success: false}
\* without message into an Error with the operation's fixed default message.
PayloadFailureBecomesError ==
    (op \in RpcWrapperOps /\ pc = "done" /\ PayloadReportsFailure(outcomes[1])) =>
        /\ outcomes[1].data.error = Str("X") => result = Return(Null, AppError("X"))
        /\ outcomes[1].data.error = Undefined =>
                result = Return(Null, AppError(RpcWrapper[op].default))

PayloadFailureDefaultMessage ==
    /\ op = "leaveSession"
    /\ pc = "done"
    /\ PayloadReportsFailure(outcomes[1])
    /\ outcomes[1].data.error = Undefined
    /\ result = Return(Null, AppError("Failed to leave session"))

\* C4: every remote-procedure wrapper returns a transport error as it is, with
\* data = null, without evaluating the payload's success field and without
\* issuing another backend call.
TransportErrorShortCircuits ==
    (op \in AllRpcOps /\ pc = "done" /\ TransportError(outcomes[1])) =>
        /\ result = Return(Null, outcomes[1].error)
        /\ ~successRead
        /\ Len(calls) = 1

TransportErrorWithPayload ==
    /\ op = "joinSession"
    /\ pc = "done"
    /\ TransportError(outcomes[1])
    /\ outcomes[1].data # Null
    /\ outcomes[1].data.success = False
    /\ result = Return(Null, outcomes[1].error)

\* C5: acceptFriendRequest returns data = null and a non-null error when the
\* procedure resolves without transport error with a payload whose success is
\* false, and returns data = true, error = null only when both checks pass.
AcceptSurfacesPayloadFailure ==
    (op = "acceptFriendRequest" /\ pc = "done") =>
        /\ PayloadReportsFailure(outcomes[1]) => (result.data = Null /\ result.error # Null)
        /\ result = Return(True, Null) =>
                (~IsFailure(outcomes[1]) /\ ~PayloadReportsFailure(outcomes[1]))

\* C6: removeFriend(u, f) deletes (u, f) first and (f, u) second, the second
\* only once the first has settled without failure; when the first delete
\* fails the second is never issued and the first's error is returned.
RemoveFriendOrder ==
    op = "removeFriend" =>
        /\ Len(calls) \in 1..2
        /\ calls[1] = Call("friendships", "delete", <<Str(args[1]), Str(args[2])>>)
        /\ Len(calls) = 2 =>
                /\ calls[2] = Call("friendships", "delete", <<Str(args[2]), Str(args[1])>>)
                /\ Len(outcomes) >= 1
                /\ ~IsFailure(outcomes[1])
        /\ pc = "done" =>
                IF IsFailure(outcomes[1])
                THEN Len(calls) = 1 /\ result = Return(Null, FailureValue(outcomes[1]))
                ELSE Len(calls) = 2

RemoveFriendFirstFailed ==
    /\ op = "removeFriend"
    /\ pc = "done"
    /\ TransportError(outcomes[1])
    /\ Len(calls) = 1
    /\ result = Return(Null, outcomes[1].error)

\* C7: fetchFriends returns {data: [], error: null} without issuing the
\* profiles batch-fetch when the friendships lookup succeeds with zero rows,
\* and returns the lookup's error, again without the batch-fetch, when it fails.
FetchFriendsShortCircuits ==
    op = "fetchFriends" =>
        /\ Len(calls) > 1 =>
                /\ Len(outcomes) >= 1
                /\ ~IsFailure(outcomes[1])
                /\ ~ZeroRows(outcomes[1].data)
        /\ pc = "done" =>
                /\ IsFailure(outcomes[1]) => result = Return(Null, FailureValue(outcomes[1]))
                /\ (~IsFailure(outcomes[1]) /\ ZeroRows(outcomes[1].data)) =>
                        result = Return(List(<<>>), Null)

FetchFriendsNoFriends ==
    /\ op = "fetchFriends"
    /\ pc = "done"
    /\ outcomes[1] = Return(List(<<>>), Null)
    /\ Len(calls) = 1
    /\ result = Return(List(<<>>), Null)

\* the invocation delivered a list of enriched notifications
DeliveredEntries ==
    /\ op = "fetchNotifications"
    /\ pc = "done"
    /\ result.k = "return"
    /\ result.error = Null
    /\ result.data # Null

\* C8: in a delivered list, the entry of a row with a session_id and neither
\* actor_id nor tag_id has its session populated from that row's session
\* lookup and no user and no tag, whatever the other rows are.
SessionOnlyRowHasSession ==
    DeliveredEntries =>
        \A i \in 1..Len(rows) :
            (rows[i].session_id # Null /\ rows[i].actor_id = Null /\ rows[i].tag_id = Null) =>
                /\ result.data.items[i].user = Undefined
                /\ result.data.items[i].tag = Undefined
                /\ result.data.items[i].session =
                        [k |-> "summary", table |-> "sessions", id |-> rows[i].session_id]

\* row i's callback has issued a lookup on table t
LookedUp(i, t) == \E j \in 1..Len(rowcalls[i]) : rowcalls[i][j].target = t

\* C9: no lookup of the enrichment is issued with a null key; a row whose
\* callback has returned has had a lookup issued for exactly its non-null
\* related ids; a null related id leaves the matching field of the row's
\* delivered entry absent.
NoLookupWithNullKey ==
    op = "fetchNotifications" =>
        \A i \in 1..Len(rows) :
            /\ \A j \in 1..Len(rowcalls[i]) : rowcalls[i][j].key # <<Null>>
            /\ rowpc[i] = "done" =>
                    /\ LookedUp(i, "profiles") <=> rows[i].actor_id # Null
                    /\ LookedUp(i, "sessions") <=> rows[i].session_id # Null
                    /\ LookedUp(i, "tags") <=> rows[i].tag_id # Null
            /\ DeliveredEntries =>
                    /\ rows[i].actor_id = Null => result.data.items[i].user = Undefined
                    /\ rows[i].session_id = Null => result.data.items[i].session = Undefined
                    /\ rows[i].tag_id = Null => result.data.items[i].tag = Undefined

LookupSkippedForNullId ==
    /\ DeliveredEntries
    /\ \E i \in 1..Len(rows) :
        /\ rows[i].actor_id = Null
        /\ rows[i].session_id # Null
        /\ rowcalls[i] = <<Call("sessions", "select", <<rows[i].session_id>>)>>
        /\ result.data.items[i].user = Undefined

\* C10: getOrCreateConversation calls the procedure first and fetches the
\* conversations row by the returned id only once the procedure has settled
\* without failure; a failed procedure call ends the operation with its error
\* and no fetch, a failed fetch ends it with the fetch's error and data = null,
\* and data is the mapped row only when both steps succeeded.
ConversationStepsInOrder ==
    op = "getOrCreateConversation" =>
        /\ Len(calls) \in 1..2
        /\ calls[1] = Call("get_or_create_conversation", "rpc", <<Str(args[1]), Str(args[2])>>)
        /\ Len(calls) = 2 =>
                /\ Len(outcomes) >= 1
                /\ ~IsFailure(outcomes[1])
                /\ calls[2] = Call("conversations", "select", <<outcomes[1].data>>)
        /\ pc = "done" =>
                /\ IsFailure(outcomes[1]) =>
                        (Len(calls) = 1 /\ result = Return(Null, FailureValue(outcomes[1])))
                /\ (Len(outcomes) = 2 /\ IsFailure(outcomes[2])) =>
                        result = Return(Null, FailureValue(outcomes[2]))
                /\ result.data # Null =>
                        /\ Len(outcomes) = 2
                        /\ ~IsFailure(outcomes[1])
                        /\ ~IsFailure(outcomes[2])
                        /\ result.error = Null
                        /\ result.data.id = outcomes[2].data.id
                        /\ result.data.participantIds = outcomes[2].data.participant_ids

ConversationFetchFailed ==
    /\ op = "getOrCreateConversation"
    /\ pc = "done"
    /\ Len(outcomes) = 2
    /\ TransportError(outcomes[2])
    /\ result = Return(Null, outcomes[2].error)

\* the number of backend-call statements on the sequential path of operation o
CallSites(o) ==
    IF o \in {"removeFriend", "fetchFriends", "getOrCreateConversation"} THEN 2 ELSE 1

\* no call is issued once a call of the invocation has failed, none is issued
\* twice, and a result exists exactly when the invocation has returned
IssuedOnce ==
    op # "idle" =>
        /\ Len(calls) \in 1..CallSites(op)
        /\ Len(outcomes) <= Len(calls)
        /\ \A j \in 1..Len(outcomes) : IsFailure(outcomes[j]) => Len(calls) = j
        /\ \A i \in 1..Len(rows) :
                /\ Len(rowouts[i]) <= Len(rowcalls[i])
                /\ \A j, l \in 1..Len(rowcalls[i]) :
                        j # l => rowcalls[i][j].target # rowcalls[i][l].target
        /\ (pc = "done") <=> (result # NoResult)

\* C11: no operation retries: within an invocation every backend query or
\* procedure call is issued at most once, also after a failure, and the
\* invocation delivers exactly one result, which never changes afterwards.
NoRetries ==
    /\ []IssuedOnce
    /\ [][result # NoResult => result' \in {result, NoResult}]_vars

FailedCallNotReissued ==
    /\ op = "joinSession"
    /\ pc = "done"
    /\ IsFailure(outcomes[1])
    /\ Len(calls) = 1
    /\ result.error # Null

\* some backend call of the invocation, a per-row lookup included, has failed
SomeCallFailed ==
    \/ \E j \in 1..Len(outcomes) : IsFailure(outcomes[j])
    \/ \E i \in 1..Len(rows) : \E j \in 1..Len(rowouts[i]) : IsFailure(rowouts[i][j])

\* C12: no error is suppressed: when a backend call made during an operation,
\* a per-notification actor / session / tag lookup included, reports an
\* error, the envelope the operation returns has a non-null error.
NoErrorSuppressed ==
    (pc = "done" /\ SomeCallFailed) => (result.k = "return" /\ result.error # Null)

\* the view-models the delivered envelope carries
DeliveredViews ==
    IF pc # "done" \/ result.k # "return" THEN {}
    ELSE IF result.data.k = "list" THEN {result.data.items[i] : i \in 1..Len(result.data.items)}
    ELSE {result.data}

IsList(v) == v.k = "list"

\* the settled query of a mapped operation carried rows and no error
MappedRows ==
    /\ op \in PassThroughOps
    /\ pc = "done"
    /\ PassThrough[op].mapped
    /\ ~IsFailure(outcomes[1])
    /\ outcomes[1].data # Null

\* C13: row mapping is total: whatever optional array / object columns of a
\* row are null or missing, every list / mapping field of the mapped view-model
\* (Session visibleToTags, participantRoles, participants; Tag memberIds;
\* Conversation participantIds) is an empty or populated container, never
\* null / undefined, a missing creator becomes {username: 'Unknown'}, and the
\* mapper does not fail.
RowMappingTotal ==
    /\ \A v \in DeliveredViews :
        /\ v.k = "session" =>
                /\ IsList(v.visibleToTags)
                /\ v.participantRoles.k = "object"
                /\ IsList(v.participants)
                /\ v.creator.k = "creator"
        /\ v.k = "tag" => IsList(v.memberIds)
        /\ v.k = "conversation" => IsList(v.participantIds)
    /\ MappedRows => (result.k = "return" /\ result.error = Null)

\* C14: removeFriend does not roll back: when the first delete succeeds and
\* the second fails, the operation returns {data: null, error: the second
\* delete's error}, has issued the two deletes and nothing else, and the first
\* direction of the friendship stays deleted.
RemoveFriendNoRollback ==
    (op = "removeFriend" /\ pc = "done" /\ Len(outcomes) = 2 /\ IsFailure(outcomes[2])) =>
        /\ result = Return(Null, FailureValue(outcomes[2]))
        /\ Len(calls) = 2
        /\ <<args[1], args[2]>> \notin friendships

OneDirectionRemains ==
    /\ op = "removeFriend"
    /\ pc = "done"
    /\ args[1] # args[2]
    /\ Len(outcomes) = 2
    /\ TransportError(outcomes[2])
    /\ result = Return(Null, outcomes[2].error)
    /\ friendships = {<<args[2], args[1]>>}

\* C15: fetchNotifications joins its fan-out: it returns only once every row's
\* callback has returned (all its lookups settled) or one has thrown, and a
\* delivered list has one entry per fetched row, in the order of the rows,
\* whatever order the lookups settled in.
FanOutJoined ==
    (op = "fetchNotifications" /\ pc = "done") =>
        /\ \/ \E i \in 1..Len(rows) : rowpc[i] = "thrown"
           \/ \A i \in 1..Len(rows) : rowpc[i] = "done" /\ Len(rowouts[i]) = Len(rowcalls[i])
        /\ DeliveredEntries =>
                /\ \A i \in 1..Len(rows) : rowpc[i] = "done"
                /\ Len(result.data.items) = Len(rows)
                /\ \A i \in 1..Len(rows) : result.data.items[i].id = rows[i].id

TwoRowsJoined ==
    /\ DeliveredEntries
    /\ Len(rows) = 2
    /\ Len(rowouts[1]) = 2
    /\ Len(rowouts[2]) = 1
    /\ result.data.items[1].id = rows[1].id
    /\ result.data.items[2].id = rows[2].id

====
